---- MODULE Spec2Model ----
(***************************************************************************)
(* A model of src/utils/monitoring.ts: the identity resolver with its two  *)
(* process-wide caches, the block aggregator (getBlockDetails), the range  *)
(* walker (exploreBlockRange) and the live follower (listenBlocks).        *)
(*                                                                         *)
(* Every `await` of the source is a suspension point: the code up to an    *)
(* await runs atomically (JavaScript is single threaded), so one action is *)
(* the continuation that runs when one awaited chain query settles.        *)
(***************************************************************************)
EXTENDS Integers, Sequences, FiniteSets, TLC

(***************************************************************************)
(* Bounds of the model.                                                    *)
(***************************************************************************)
MaxCalls == 2        \* direct calls made by the caller
MaxTicks == 1        \* clock advances
MaxAccounts == 3     \* accounts the caller resolves in all, singly and in lists
MaxBlock == 4        \* highest block number of the chain
MaxConcurrency == 2  \* highest `concurrency` option of a walk
MaxHeads == 2        \* head notifications delivered to a follower
MaxTxs == 3          \* distinct transactions seen in the pending pool

(***************************************************************************)
(* JavaScript values that matter to the code's truthiness tests.           *)
(***************************************************************************)
Null == "<null>"
Undefined == "<undefined>"
FalseV == "<false>"
EmptyStr == ""

Truthy(v) == v \notin {Null, Undefined, FalseV, EmptyStr}

\* The freshness window of both caches, in milliseconds.
FreshWindow == 3600 * 1000

\* Date.now() when the process starts.
StartTime == 10 * FreshWindow

(***************************************************************************)
(* The chain, as the resolver sees it.                                     *)
(***************************************************************************)
AuthorKeys == {"k1", "k2", "k3"}
AccountKeys == {"0xAa", "0xBb"}

\* api.query.authorMapping.mappingWithDeposit(author): the raw (lower case)
\* account of the mapping, or Null for an empty Option.
ChainMapping(author) ==
  CASE author = "k1" -> "0xaa"
    [] author = "k2" -> "0xbb"
    [] OTHER -> Null

\* ethereumEncode: the checksummed form of a raw account.
ethereumEncode(raw) ==
  CASE raw = "0xaa" -> "0xAa"
    [] raw = "0xbb" -> "0xBb"
    [] OTHER -> raw

\* api.query.identity.identityOf(account): the registration (its display
\* name) or Null for an empty Option.
ChainIdentityOf(account) ==
  CASE account = "0xAa" -> "Alice"
    [] OTHER -> Null

ZeroAccount == "0x0000000000000000000000000000000000000000000000000000000000000000"

VARIABLES
  now,                 \* Date.now()
  authorMappingCache,  \* author -> entry
  identityCache,       \* account -> entry
  mapStores,           \* history: author -> time of the latest store of its entry, or -1
  idStores,            \* history: account -> time of the latest store of its entry, or -1
  ticks,               \* clock advances so far
  calls,               \* the caller's direct resolver calls: number -> resolution
  tasks,               \* the getBlockDetails calls, a sequence
  aggSnap,             \* history: the caches when the caller last called getBlockDetails
  walk,                \* the exploreBlockRange call
  delivered,           \* history: the block numbers given to the walk's callback, in order
  listen,              \* the listenBlocks call
  handlers,            \* the head notifications' handlers, in arrival order
  cbLog,               \* history: what the follower's callback was given, in call order
  fmt                  \* the generateBlockDetailsLog call: its arguments and its text

vars == <<now, authorMappingCache, identityCache, mapStores, idStores, ticks, calls,
          tasks, aggSnap, walk, delivered, listen, handlers, cbLog, fmt>>

caches == <<authorMappingCache, identityCache, mapStores, idStores>>

clock == <<now, ticks>>

walkVars == <<walk, delivered>>

listenVars == <<listen, handlers, cbLog>>

drivers == <<tasks, aggSnap, walk, delivered, listen, handlers, cbLog>>

(***************************************************************************)
(* Cache entries.  An absent key reads as NoEntry.                         *)
(***************************************************************************)
NoEntry == [present |-> FALSE, value |-> Undefined, lastUpdate |-> 0]

Entry(v, t) == [present |-> TRUE, value |-> v, lastUpdate |-> t]

\* Stale with the comparison off by one: an entry exactly one window old is stale.
Stale_AtWindow(e, t) == ~e.present \/ e.lastUpdate <= t - FreshWindow

\* !cache[key] || cache[key].lastUpdate < Date.now() - 3600 * 1000
Stale(e, t) == ~e.present \/ e.lastUpdate < t - FreshWindow

\* Display without the fallback to the account: the empty display of no identity.
Display_NoFallback(identity, account) == IF Truthy(identity) THEN identity ELSE EmptyStr

\* identity ? u8aToString(identity.info.display...) : account?.toString()
Display(identity, account) == IF Truthy(identity) THEN identity ELSE account

\* The caches and their histories, as one value the resolver's steps map.
World == [amc |-> authorMappingCache, idc |-> identityCache,
          ms |-> mapStores, is |-> idStores]

(***************************************************************************)
(* A resolution: one call of getAuthorIdentity, getAccountIdentity or      *)
(* getAccountIdentities (accounts, missing and outs are its lists).        *)
(*   pc: "none" | "mapQuery" | "idQuery" | "batchQuery" | "done" | "failed" *)
(* The other fields record what the call saw and did:                      *)
(*   mapSeen, idSeen: whether, when the lookup started, the key's entry    *)
(*     had never been stored ("none"), was last stored within the window   *)
(*     ("fresh") or longer ago ("old");                                    *)
(*   mapQueried, idQueried: whether the call issued the storage query;     *)
(*   usedFresh: whether the identity entry the result was read from was    *)
(*     stored within the window before it was read;                        *)
(*   queries: the batched storage queries the call issued;                 *)
(*   due: the input accounts of getAccountIdentities that, when the call   *)
(*     started, had never been stored or were stored over a window ago.    *)
(***************************************************************************)
NoRes ==
  [pc |-> "none", kind |-> "none", author |-> EmptyStr, account |-> EmptyStr,
   accounts |-> <<>>, missing |-> <<>>, outs |-> <<>>,
   out |-> EmptyStr, mapSeen |-> "none", mapQueried |-> FALSE,
   idSeen |-> "none", idQueried |-> FALSE, usedFresh |-> TRUE,
   queries |-> 0, due |-> {}]

Seen(stored, t) ==
  IF stored < 0 THEN "none" ELSE IF t - stored <= FreshWindow THEN "fresh" ELSE "old"

\* A guard that answers the all-zero identifier for a missing account.
NoAccountResult_Zero == ZeroAccount

\* The `if (!account)` guard of getAccountIdentity: return "".
NoAccountResult == EmptyStr

\* getAccountIdentity up to its first await (or its return).
EnterAccountIdentity(r, account, w, t) ==
  LET r1 == [r EXCEPT !.account = account,
                      !.idSeen = IF account \in AccountKeys
                                   THEN Seen(w.is[account], t) ELSE "none"]
  IN IF ~Truthy(account)
       THEN [r1 EXCEPT !.pc = "done", !.out = NoAccountResult]
     ELSE IF Stale(w.idc[account], t)
       THEN [r1 EXCEPT !.pc = "idQuery", !.idQueried = TRUE]
     ELSE [r1 EXCEPT !.pc = "done",
                     !.usedFresh = (t - w.idc[account].lastUpdate <= FreshWindow),
                     !.out = Display(w.idc[account].value, account)]

\* getAccountIdentity from the answer of identityOf to its return.
AccountIdentityAnswer(r, w, t) ==
  LET identity == IF ChainIdentityOf(r.account) = Null
                    THEN Undefined ELSE ChainIdentityOf(r.account)
      idc2 == [w.idc EXCEPT ![r.account] = Entry(identity, t)]
  IN [r |-> [r EXCEPT !.pc = "done",
                      !.usedFresh = (t - idc2[r.account].lastUpdate <= FreshWindow),
                      !.out = Display(idc2[r.account].value, r.account)],
      w |-> [w EXCEPT !.idc = idc2]]

\* getAuthorIdentity up to its first await (or its return).
EnterAuthorIdentity(r, author, w, t) ==
  LET r1 == [r EXCEPT !.author = author, !.mapSeen = Seen(w.ms[author], t)]
  IN IF Stale(w.amc[author], t)
       THEN [r1 EXCEPT !.pc = "mapQuery", !.mapQueried = TRUE]
     ELSE EnterAccountIdentity(r1, w.amc[author].value, w, t)

\* getAuthorIdentity from the answer of mappingWithDeposit on.
AuthorMappingAnswer(r, w, t) ==
  LET account == IF ChainMapping(r.author) = Null
                   THEN Null ELSE ethereumEncode(ChainMapping(r.author))
      w2 == [w EXCEPT !.amc[r.author] = Entry(account, t)]
  IN [r |-> EnterAccountIdentity(r, w2.amc[r.author].value, w2, t), w |-> w2]

\* accounts.map(...) at the end of getAccountIdentities.
DisplayAll(accounts, idc) ==
  [i \in 1..Len(accounts) |->
     IF Truthy(accounts[i]) THEN Display(idc[accounts[i]].value, accounts[i])
     ELSE accounts[i]]

\* getAccountIdentities up to its await (or its return).
EnterAccountIdentities(r, accounts, w, t) ==
  LET isMissing(a) == Truthy(a) /\ Stale(w.idc[a], t)
      missing == SelectSeq(accounts, isMissing)
      r1 == [r EXCEPT !.accounts = accounts,
                      !.due = {accounts[i] : i \in {j \in 1..Len(accounts) :
                                 /\ Truthy(accounts[j])
                                 /\ Seen(w.is[accounts[j]], t) # "fresh"}}]
  IN IF Len(accounts) = 0
       THEN [r1 EXCEPT !.pc = "done", !.outs = <<>>]
     ELSE IF Len(missing) > 0
       THEN [r1 EXCEPT !.pc = "batchQuery", !.missing = missing, !.queries = @ + 1]
     ELSE [r1 EXCEPT !.pc = "done", !.outs = DisplayAll(accounts, w.idc)]

\* A forEach that stores the answer for the first key only.
StoreIdentities_FirstOnly(idc, missing, n, t) ==
  IF n = 0 THEN idc
  ELSE [idc EXCEPT ![missing[1]] =
          Entry(IF ChainIdentityOf(missing[1]) = Null
                  THEN FalseV ELSE ChainIdentityOf(missing[1]), t)]

\* identities.forEach(...): the entries of missingAccounts 1..n, stored in order.
RECURSIVE StoreIdentities(_, _, _, _)
StoreIdentities(idc, missing, n, t) ==
  IF n = 0 THEN idc
  ELSE LET prev == StoreIdentities(idc, missing, n - 1, t)
           identity == IF ChainIdentityOf(missing[n]) = Null
                         THEN FalseV ELSE ChainIdentityOf(missing[n])
       IN [prev EXCEPT ![missing[n]] = Entry(identity, t)]

\* getAccountIdentities from the answer of queryStorageAt to its return.
AccountIdentitiesAnswer(r, w, t) ==
  LET idc2 == StoreIdentities(w.idc, r.missing, Len(r.missing), t)
  IN [r |-> [r EXCEPT !.pc = "done", !.outs = DisplayAll(r.accounts, idc2)],
      w |-> [w EXCEPT !.idc = idc2]]

\* A rejected query rejects the call.
QueryFailed(r) == [r EXCEPT !.pc = "failed"]

\* The caches become those of w; the histories note every entry that changed.
SetWorld(w) ==
  /\ authorMappingCache' = w.amc
  /\ identityCache' = w.idc
  /\ mapStores' = [a \in AuthorKeys |->
                     IF w.amc[a] # authorMappingCache[a] THEN now ELSE mapStores[a]]
  /\ idStores' = [a \in AccountKeys |->
                    IF w.idc[a] # identityCache[a] THEN now ELSE idStores[a]]

(***************************************************************************)
(* The caller's direct calls of the resolver, in call order.               *)
(***************************************************************************)
CallIds == 1..Len(calls)

CallGetAccountIdentity(account) ==
  /\ calls' = Append(calls, EnterAccountIdentity([NoRes EXCEPT !.kind = "account"],
                      account, World, now))
  /\ UNCHANGED <<fmt, clock, caches, drivers>>

CallGetAuthorIdentity(author) ==
  /\ calls' = Append(calls, EnterAuthorIdentity([NoRes EXCEPT !.kind = "author"],
                      author, World, now))
  /\ UNCHANGED <<fmt, clock, caches, drivers>>

AccountLists ==
  UNION {[1..n -> AccountKeys \cup {EmptyStr}] : n \in 0..MaxAccounts}

\* The accounts the caller has passed to the resolver so far (a call with an
\* empty list counts as one).
RECURSIVE AccountsUsed(_)
AccountsUsed(n) ==
  IF n = 0 THEN 0
  ELSE AccountsUsed(n - 1)
       + (IF Len(calls[n].accounts) > 1 THEN Len(calls[n].accounts) ELSE 1)

HasBudget(n) ==
  /\ Len(calls) < MaxCalls
  /\ AccountsUsed(Len(calls)) + n <= MaxAccounts

CallGetAccountIdentities(accounts) ==
  /\ calls' = Append(calls, EnterAccountIdentities([NoRes EXCEPT !.kind = "accounts"],
                      accounts, World, now))
  /\ UNCHANGED <<fmt, clock, caches, drivers>>

BatchQueryDone(c, ok) ==
  /\ calls[c].pc = "batchQuery"
  /\ IF ok
       THEN LET s == AccountIdentitiesAnswer(calls[c], World, now)
            IN calls' = [calls EXCEPT ![c] = s.r] /\ SetWorld(s.w)
       ELSE calls' = [calls EXCEPT ![c] = QueryFailed(@)] /\ UNCHANGED caches
  /\ UNCHANGED <<fmt, clock, drivers>>

MappingQueryDone(c, ok) ==
  /\ calls[c].pc = "mapQuery"
  /\ IF ok
       THEN LET s == AuthorMappingAnswer(calls[c], World, now)
            IN calls' = [calls EXCEPT ![c] = s.r] /\ SetWorld(s.w)
       ELSE calls' = [calls EXCEPT ![c] = QueryFailed(@)] /\ UNCHANGED caches
  /\ UNCHANGED <<fmt, clock, drivers>>

IdentityQueryDone(c, ok) ==
  /\ calls[c].pc = "idQuery"
  /\ IF ok
       THEN LET s == AccountIdentityAnswer(calls[c], World, now)
            IN calls' = [calls EXCEPT ![c] = s.r] /\ SetWorld(s.w)
       ELSE calls' = [calls EXCEPT ![c] = QueryFailed(@)] /\ UNCHANGED caches
  /\ UNCHANGED <<fmt, clock, drivers>>

\* The clock: exactly one freshness window passes, or a millisecond more.
TickSteps == {FreshWindow, FreshWindow + 1}

Tick(d) ==
  /\ ticks < MaxTicks
  /\ ticks' = ticks + 1
  /\ now' = now + d
  /\ UNCHANGED <<fmt, caches, calls, drivers>>

(***************************************************************************)
(* The chain's blocks, as getBlockDetails sees them.                       *)
(***************************************************************************)
\* api.rpc.chain.getBlockHash(n), and the block a hash names.
BlockHash(n) == <<"hash", n>>
BlockOfHash(h) == h[2]

\* block.extrinsics.length
BlockExtrinsics(n) == n % 3

\* The author identifier found in the block (lines 131-139), Undefined when
\* neither the setAuthor inherent nor the "nmbs" digest names one.
BlockAuthor(n) ==
  CASE n \in {1, 2} -> "k1"
    [] n = 3 -> Undefined
    [] OTHER -> "k3"

\* apiAt.query.timestamp.now()
BlockTime(n) == n * n * 1000

\* api.consts.system.blockWeights.maxBlock
MaxBlockWeight == 3000

\* The dispatched weight of the i-th extrinsic of block n.
ExtrinsicWeight(n, i) == 100 * n + 11 * i

\* mapExtrinsics(block.extrinsics, records, fees): one entry per extrinsic of
\* the block, in order, with its dispatch info.
mapExtrinsics(n) ==
  [i \in 1..BlockExtrinsics(n) |-> [index |-> i, weight |-> ExtrinsicWeight(n, i)]]

\* txWithEvents.reduce(...) from 0n (lines 151-153).
RECURSIVE TotalWeight(_, _)
TotalWeight(txWithEvents, k) ==
  IF k = 0 THEN 0 ELSE TotalWeight(txWithEvents, k - 1) + txWithEvents[k].weight

\* Number((blockWeight * 10000n) / maxBlockWeight) / 100, in hundredths of a
\* percent: the bigint division truncates.
WeightPercentage(blockWeight) == (blockWeight * 10000) \div MaxBlockWeight

\* A fee query issued even for a block without extrinsics.
FeeQueries_AtLeastOne(n) == IF BlockExtrinsics(n) = 0 THEN 1 ELSE BlockExtrinsics(n)

\* block.extrinsics.map(...): one payment.queryInfo per extrinsic (line 143).
FeeQueries(n) == BlockExtrinsics(n)

(***************************************************************************)
(* A getBlockDetails call (with, in a walk, the getBlockHash before it).   *)
(*   pc: "getBlockHash" | "apiAt" | "fetch" | "fanout" | "done" | "failed"  *)
(*   fetchLeft: queries of the first Promise.all still in flight            *)
(*   feesLeft:  payment.queryInfo queries still in flight                   *)
(*   feeQueries: payment.queryInfo queries issued                           *)
(*   feeFailed: a fee query was rejected                                    *)
(*   res:       the call's getAuthorIdentity                                *)
(*   result:    the BlockDetails returned                                   *)
(***************************************************************************)
NoResult == [block |-> 0, authorName |-> EmptyStr, blockTime |-> 0, txs |-> 0,
             weightPercentage |-> 0, txWithEvents |-> <<>>]

NewTask(n, pc) ==
  [pc |-> pc, num |-> n, fetchLeft |-> 0, feesLeft |-> 0, feeQueries |-> 0,
   feeFailed |-> FALSE,
   res |-> NoRes, result |-> NoResult]

\* Lines 150-161: the BlockDetails of a task whose queries all answered.
BlockDetailsOf(t) ==
  LET txWithEvents == mapExtrinsics(t.num)
  IN [block |-> t.num, authorName |-> t.res.out,
      blockTime |-> BlockTime(t.num),
      txs |-> BlockExtrinsics(t.num),
      weightPercentage |-> WeightPercentage(TotalWeight(txWithEvents, Len(txWithEvents))),
      txWithEvents |-> txWithEvents]

\* Settle with the rejection of a fee query dropped.
Settle_IgnoringFees(t) ==
  IF t.pc # "fanout" THEN t
  ELSE IF t.res.pc = "failed" THEN [t EXCEPT !.pc = "failed"]
  ELSE IF t.feesLeft = 0 /\ t.res.pc = "done"
    THEN [t EXCEPT !.pc = "done", !.result = BlockDetailsOf(t)]
  ELSE t

\* Settle returning as soon as the fee queries are in, the author resolution
\* still running.
Settle_WithoutAuthor(t) ==
  IF t.pc # "fanout" THEN t
  ELSE IF t.feeFailed \/ t.res.pc = "failed" THEN [t EXCEPT !.pc = "failed"]
  ELSE IF t.feesLeft = 0
    THEN [t EXCEPT !.pc = "done", !.result = BlockDetailsOf(t)]
  ELSE t

\* Promise.all([Promise.all(fees), authorName]) with every member settled or
\* one rejected, and the rest of getBlockDetails (lines 150-161).
Settle(t) ==
  IF t.pc # "fanout" THEN t
  ELSE IF t.feeFailed \/ t.res.pc = "failed" THEN [t EXCEPT !.pc = "failed"]
  ELSE IF t.feesLeft = 0 /\ t.res.pc = "done"
    THEN [t EXCEPT !.pc = "done", !.result = BlockDetailsOf(t)]
  ELSE t

\* Lines 131-148: the author identifier, the fee queries, the author resolution.
StartFanout(t, w, time) ==
  LET authorId == BlockAuthor(t.num)
      r == IF Truthy(authorId)
             THEN EnterAuthorIdentity([NoRes EXCEPT !.kind = "author"], authorId, w, time)
             ELSE [NoRes EXCEPT !.kind = "placeholder", !.pc = "done", !.out = ZeroAccount]
  IN Settle([t EXCEPT !.pc = "fanout", !.feesLeft = FeeQueries(t.num),
                      !.feeQueries = FeeQueries(t.num), !.res = r])

\* WalkReact waiting for every task to settle and passing over the failed ones.
WalkReact_AllSettled(nt) ==
  IF walk.pc # "await" THEN UNCHANGED walkVars
  ELSE IF \A i \in 1..Len(nt) : nt[i].pc \in {"done", "failed"}
    THEN /\ walk' = [walk EXCEPT !.pc = "callback", !.cbIdx = 1]
         /\ delivered' = Append(delivered, nt[1].result.block)
  ELSE UNCHANGED walkVars

\* The walk's reaction to its batch (line 185) and the first callBack (line 187).
WalkReact(nt) ==
  IF walk.pc # "await" THEN UNCHANGED walkVars
  ELSE IF \E i \in 1..Len(nt) : nt[i].pc = "failed"
    THEN walk' = [walk EXCEPT !.pc = "failed"] /\ UNCHANGED delivered
  ELSE IF \A i \in 1..Len(nt) : nt[i].pc = "done"
    THEN /\ walk' = [walk EXCEPT !.pc = "callback", !.cbIdx = 1]
         /\ delivered' = Append(delivered, nt[1].result.block)
  ELSE UNCHANGED walkVars

(***************************************************************************)
(* listenBlocks.  Handler k is the subscription callback's run for the     *)
(* k-th head notification; its getBlockDetails is task k.                  *)
(*   listen.pc: "idle" | "getBlock" | "timestamp" | "subscribe" |          *)
(*              "listening" | "failed"                                      *)
(*   listen.startup (the reads of lines 204-206): "pending" | "read" |     *)
(*              "failed"                                                    *)
(*   listen.sub (the subscription call of line 212): "none" | "pending" |  *)
(*              "active" | "rejected"                                       *)
(*   handler pc: "await" | "returned" | "failed"                           *)
(*   handler pool (author.pendingExtrinsics): "pending" | "done" | "failed" *)
(*   handler cb (the callBack it invoked): "none" | "running" | "returned" *)
(*              | "failed"                                                  *)
(***************************************************************************)
NoListen == [pc |-> "idle", entry |-> "none", stream |-> "none", head |-> 0,
             baseline |-> 0, latestBlockTime |-> 0, callerGot |-> "pending",
             startup |-> "pending", sub |-> "none"]

NewHandler == [pc |-> "await", pool |-> "pending", cb |-> "none"]

\* Lines 213-222 once Promise.all of handler k settles: nt and nh are the tasks
\* and handlers after the step that may have settled it.
ListenReact(k, nt, nh) ==
  IF k > Len(nh) \/ nh[k].pc # "await"
    THEN handlers' = nh /\ UNCHANGED <<listen, cbLog>>
  ELSE IF nt[k].pc = "failed" \/ nh[k].pool = "failed"
    THEN handlers' = [nh EXCEPT ![k].pc = "failed"] /\ UNCHANGED <<listen, cbLog>>
  ELSE IF nt[k].pc = "done" /\ nh[k].pool = "done"
    THEN /\ cbLog' = Append(cbLog,
                             [block |-> nt[k].result.block,
                              elapsed |-> nt[k].result.blockTime - listen.latestBlockTime])
         /\ listen' = [listen EXCEPT !.latestBlockTime = nt[k].result.blockTime]
         /\ handlers' = [nh EXCEPT ![k].pc = "returned", ![k].cb = "running"]
  ELSE handlers' = nh /\ UNCHANGED <<listen, cbLog>>

\* One step of task i: its new state, the caches, and what awaits the task.
TaskStep(i, t, w) ==
  LET nt == [tasks EXCEPT ![i] = t]
  IN /\ tasks' = nt
     /\ SetWorld(w)
     /\ WalkReact(nt)
     /\ ListenReact(i, nt, handlers)
     /\ UNCHANGED <<fmt, clock, calls, aggSnap>>

TaskIds == 1..Len(tasks)

\* api.rpc.chain.getBlockHash(n) settles; .then calls getBlockDetails (line 182).
BlockHashDone(i, ok) ==
  /\ tasks[i].pc = "getBlockHash"
  /\ TaskStep(i, [tasks[i] EXCEPT !.pc = IF ok THEN "apiAt" ELSE "failed"], World)

\* api.at(blockHash) settles (line 124); the three queries of line 125 start.
ApiAtDone(i, ok) ==
  /\ tasks[i].pc = "apiAt"
  /\ TaskStep(i, IF ok THEN [tasks[i] EXCEPT !.pc = "fetch", !.fetchLeft = 3]
                 ELSE [tasks[i] EXCEPT !.pc = "failed"], World)

\* One of getBlock, system.events and timestamp.now settles (lines 125-129).
FetchDone(i, ok) ==
  /\ tasks[i].fetchLeft > 0
  /\ LET t == [tasks[i] EXCEPT !.fetchLeft = @ - 1]
     IN TaskStep(i, IF t.pc # "fetch" THEN t
                    ELSE IF ~ok THEN [t EXCEPT !.pc = "failed"]
                    ELSE IF t.fetchLeft = 0 THEN StartFanout(t, World, now)
                    ELSE t, World)

\* One payment.queryInfo settles (lines 142-144).
FeeDone(i, ok) ==
  /\ tasks[i].feesLeft > 0
  /\ TaskStep(i, Settle([tasks[i] EXCEPT !.feesLeft = @ - 1,
                                         !.feeFailed = @ \/ ~ok]), World)

\* The task's mappingWithDeposit settles (getAuthorIdentity, line 110).
TaskMappingDone(i, ok) ==
  /\ tasks[i].res.pc = "mapQuery"
  /\ IF ok
       THEN LET s == AuthorMappingAnswer(tasks[i].res, World, now)
            IN TaskStep(i, Settle([tasks[i] EXCEPT !.res = s.r]), s.w)
       ELSE TaskStep(i, Settle([tasks[i] EXCEPT !.res = QueryFailed(@)]), World)

\* The task's identityOf settles (getAccountIdentity, line 94).
TaskIdentityDone(i, ok) ==
  /\ tasks[i].res.pc = "idQuery"
  /\ IF ok
       THEN LET s == AccountIdentityAnswer(tasks[i].res, World, now)
            IN TaskStep(i, Settle([tasks[i] EXCEPT !.res = s.r]), s.w)
       ELSE TaskStep(i, Settle([tasks[i] EXCEPT !.res = QueryFailed(@)]), World)

\* No query of the task is in flight.
Quiet(t) ==
  /\ t.pc \in {"done", "failed"}
  /\ t.fetchLeft = 0 /\ t.feesLeft = 0
  /\ t.res.pc \in {"none", "done", "failed"}

(***************************************************************************)
(* The caller's direct calls of getBlockDetails, one after the other.      *)
(***************************************************************************)
CallGetBlockDetails(n) ==
  /\ Len(tasks) < MaxCalls
  /\ \A i \in TaskIds : Quiet(tasks[i])
  /\ tasks' = Append(tasks, NewTask(n, "apiAt"))
  /\ aggSnap' = [amc |-> authorMappingCache, idc |-> identityCache]
  /\ UNCHANGED <<fmt, clock, caches, calls, walkVars, listenVars>>

(***************************************************************************)
(* exploreBlockRange.                                                      *)
(*   pc: "idle" | "await" | "callback" | "returned" | "failed"             *)
(*   cbIdx: the position in blocksDetails of the callBack being awaited    *)
(*   cbReturned: the callBack invocations that have returned               *)
(*   cbFailed: a callBack invocation was rejected                          *)
(***************************************************************************)
NoWalk == [pc |-> "idle", from |-> 0, to |-> 0, concurrency |-> 0, current |-> 0,
           cbIdx |-> 0, cbReturned |-> 0, cbFailed |-> FALSE]

Min(a, b) == IF a < b THEN a ELSE b

\* A for loop that pushes no task.
BatchSize_None(current, to, concurrency) == 0

\* The for loop without its `current <= to` test.
BatchSize_NoClamp(current, to, concurrency) == concurrency

\* The for loop with `i <= concurrency`.
BatchSize_OneMore(current, to, concurrency) == Min(concurrency + 1, to - current + 1)

\* The for loop of lines 179-184: the tasks pushed from `current` on.
BatchSize(current, to, concurrency) == Min(concurrency, to - current + 1)

Batch(current, n) == [i \in 1..n |-> NewTask(current + i - 1, "getBlockHash")]

\* The while loop from its test (line 178) to the await of line 185, or the return.
LoopFrom(w) ==
  IF w.current <= w.to
    THEN LET n == BatchSize(w.current, w.to, w.concurrency)
         IN /\ tasks' = Batch(w.current, n)
            /\ walk' = [w EXCEPT !.pc = "await", !.current = @ + n, !.cbIdx = 0]
    ELSE /\ walk' = [w EXCEPT !.pc = "returned"]
         /\ UNCHANGED tasks

ExploreBlockRange(from, to, concurrency) ==
  /\ walk.pc = "idle"
  /\ LoopFrom([NoWalk EXCEPT !.from = from, !.to = to, !.concurrency = concurrency,
                             !.current = from])
  /\ UNCHANGED <<fmt, clock, caches, calls, aggSnap, delivered, listenVars>>

\* The callBack invoked without await: its rejection is not seen and the loop
\* goes on.
CallBackDone_NotAwaited(ok) ==
  /\ walk.pc = "callback"
  /\ LET w == [walk EXCEPT !.cbReturned = IF ok THEN @ + 1 ELSE @,
                           !.cbFailed = @ \/ ~ok]
     IN IF walk.cbIdx < Len(tasks)
          THEN /\ walk' = [w EXCEPT !.cbIdx = @ + 1]
               /\ delivered' = Append(delivered, tasks[walk.cbIdx + 1].result.block)
               /\ UNCHANGED tasks
        ELSE LoopFrom(w) /\ UNCHANGED delivered
  /\ UNCHANGED <<fmt, clock, caches, calls, aggSnap, listenVars>>

\* The awaited callBack settles (line 187): the next callBack, the next batch,
\* the return or the rejection.
CallBackDone(ok) ==
  /\ walk.pc = "callback"
  /\ IF ~ok
       THEN /\ walk' = [walk EXCEPT !.pc = "failed", !.cbFailed = TRUE]
            /\ UNCHANGED <<tasks, delivered>>
     ELSE IF walk.cbIdx < Len(tasks)
       THEN /\ walk' = [walk EXCEPT !.cbIdx = @ + 1, !.cbReturned = @ + 1]
            /\ delivered' = Append(delivered, tasks[walk.cbIdx + 1].result.block)
            /\ UNCHANGED tasks
     ELSE LoopFrom([walk EXCEPT !.cbReturned = @ + 1]) /\ UNCHANGED delivered
  /\ UNCHANGED <<fmt, clock, caches, calls, aggSnap, listenVars>>

(***************************************************************************)
(* The follow entry points.  listenBestBlocks and listenFinalizedBlocks    *)
(* call listenBlocks and return without awaiting it (lines 227-239).       *)
(***************************************************************************)
Entries == {"listenBlocks", "listenBestBlocks", "listenFinalizedBlocks"}

\* The heads the chain may be at when the follower starts.
StartHeads == {1, 2}

StartListen(entry, finalized, head) ==
  /\ listen.pc = "idle"
  /\ entry = "listenBestBlocks" => ~finalized
  /\ entry = "listenFinalizedBlocks" => finalized
  /\ listen' = [NoListen EXCEPT
                  !.pc = "getBlock", !.entry = entry, !.head = head,
                  !.stream = IF finalized THEN "finalizedHeads" ELSE "newHeads",
                  !.callerGot = IF entry = "listenBlocks" THEN "pending" ELSE "undefined"]
  /\ UNCHANGED <<fmt, clock, caches, calls, tasks, aggSnap, walkVars, handlers, cbLog>>

\* api.rpc.chain.getBlock() settles (line 205); a rejection is caught (line 207)
\* and the subscription call of line 212 follows.
HeadBlockDone(ok) ==
  /\ listen.pc = "getBlock"
  /\ listen' = IF ok THEN [listen EXCEPT !.pc = "timestamp"]
               ELSE [listen EXCEPT !.pc = "subscribe", !.baseline = 0,
                                   !.latestBlockTime = 0,
                                   !.startup = "failed", !.sub = "pending"]
  /\ UNCHANGED <<fmt, clock, caches, calls, tasks, aggSnap, walkVars, handlers, cbLog>>

\* The timestamp read without the catch of line 207: its rejection rejects
\* listenBlocks.
ParentTimeDone_NoCatch(ok) ==
  /\ listen.pc = "timestamp"
  /\ listen' = IF ok
                 THEN [listen EXCEPT !.pc = "subscribe", !.startup = "read",
                                     !.sub = "pending",
                                     !.baseline = BlockTime(listen.head - 1),
                                     !.latestBlockTime = BlockTime(listen.head - 1)]
               ELSE [listen EXCEPT !.pc = "failed", !.startup = "failed",
                                   !.callerGot = IF listen.entry = "listenBlocks"
                                                   THEN "rejected" ELSE @]
  /\ UNCHANGED <<fmt, clock, caches, calls, tasks, aggSnap, walkVars, handlers, cbLog>>

\* timestamp.now.at(parentHash) settles (lines 204-206); a rejection is caught
\* (line 207).
ParentTimeDone(ok) ==
  /\ listen.pc = "timestamp"
  /\ LET time == IF ok THEN BlockTime(listen.head - 1) ELSE 0
     IN listen' = [listen EXCEPT !.pc = "subscribe", !.baseline = time,
                                 !.latestBlockTime = time,
                                 !.startup = IF ok THEN "read" ELSE "failed",
                                 !.sub = "pending"]
  /\ UNCHANGED <<fmt, clock, caches, calls, tasks, aggSnap, walkVars, handlers, cbLog>>

\* The subscription call settles (line 212); listenBlocks returns unsubHeads.
\* The choice of stream (`call`, line 211) is not used after the call.
SubscribeDone(ok) ==
  /\ listen.pc = "subscribe"
  /\ listen' = [listen EXCEPT
                  !.pc = IF ok THEN "listening" ELSE "failed",
                  !.sub = IF ok THEN "active" ELSE "rejected",
                  !.stream = "none",
                  !.callerGot = IF listen.entry # "listenBlocks" THEN @
                                ELSE IF ok THEN "unsubHeads" ELSE "rejected"]
  /\ UNCHANGED <<fmt, clock, caches, calls, tasks, aggSnap, walkVars, handlers, cbLog>>

\* The head stream delivers its next notification: the subscription callback
\* starts getBlockDetails and pendingExtrinsics (lines 213-216).  The stream
\* does not wait for the promise an earlier run of the callback returned.
Notify ==
  /\ listen.pc = "listening"
  /\ Len(handlers) < MaxHeads
  /\ handlers' = Append(handlers, NewHandler)
  /\ tasks' = Append(tasks, NewTask(listen.head + Len(handlers), "apiAt"))
  /\ UNCHANGED <<fmt, clock, caches, calls, aggSnap, walkVars, listen, cbLog>>

\* author.pendingExtrinsics of handler k settles (line 215).
PoolDone(k, ok) ==
  /\ handlers[k].pool = "pending"
  /\ ListenReact(k, tasks, [handlers EXCEPT ![k].pool = IF ok THEN "done" ELSE "failed"])
  /\ UNCHANGED <<fmt, clock, caches, calls, tasks, aggSnap, walkVars>>

\* The promise of the callBack handler k invoked (line 217) settles; nothing
\* awaits it.
HeadCallBackDone(k, ok) ==
  /\ handlers[k].cb = "running"
  /\ handlers' = [handlers EXCEPT ![k].cb = IF ok THEN "returned" ELSE "failed"]
  /\ UNCHANGED <<fmt, clock, caches, calls, tasks, aggSnap, walkVars, listen, cbLog>>

(***************************************************************************)
(* generateBlockDetailsLog: the pool segment of the line (lines 268-288 and *)
(* 388).  A snapshot's pendingTxs is the set of the pool's transaction     *)
(* hashes; hasPool tells a RealtimeBlockDetails from a BlockDetails.       *)
(***************************************************************************)
TxHashes == 1..MaxTxs

Snapshots ==
  [hasPool : {TRUE}, pendingTxs : SUBSET TxHashes]
    \cup {[hasPool |-> FALSE, pendingTxs |-> {}]}

NoSnapshot == [hasPool |-> FALSE, pendingTxs |-> {}]

\* previousBlockDetails: a snapshot, or not given.
Previous ==
  [given : {TRUE}, snap : Snapshots] \cup {[given |-> FALSE, snap |-> NoSnapshot]}

Digit(d) ==
  CASE d = 0 -> "0" [] d = 1 -> "1" [] d = 2 -> "2" [] d = 3 -> "3" [] d = 4 -> "4"
    [] d = 5 -> "5" [] d = 6 -> "6" [] d = 7 -> "7" [] d = 8 -> "8" [] OTHER -> "9"

\* Number.prototype.toString()
RECURSIVE NumberToString(_)
NumberToString(n) ==
  IF n < 0 THEN "-" \o NumberToString(0 - n)
  ELSE IF n < 10 THEN Digit(n)
  ELSE NumberToString(n \div 10) \o Digit(n % 10)

\* String.prototype.padStart(width, " ")
RECURSIVE PadStart(_, _)
PadStart(str, width) == IF Len(str) >= width THEN str ELSE PadStart(" " \o str, width)

\* chalk.red / chalk.yellow: the text inside the colour's escape codes.
Chalk(colour, text) == "<" \o colour \o ">" \o text \o "</" \o colour \o ">"

\* The difference of the two pools' sizes.
TxPoolDiff_SizeDelta(pendingTxs, previousTxs) ==
  Cardinality(pendingTxs) - Cardinality(previousTxs)

\* Lines 280-283: the current pool's hashes that the previous pool has not.
TxPoolDiff(pendingTxs, previousTxs) ==
  Cardinality({x \in pendingTxs : x \notin previousTxs})

\* Lines 271-277.
TxPoolText(pendingTxs) ==
  LET txPool == PadStart(NumberToString(Cardinality(pendingTxs)), 4)
  IN IF Cardinality(pendingTxs) > 1000 THEN Chalk("red", txPool)
     ELSE IF Cardinality(pendingTxs) > 100 THEN Chalk("yellow", txPool)
     ELSE txPool

\* Lines 284-286.
PoolIncText(txPoolDiff) ==
  LET poolInc == PadStart(NumberToString(txPoolDiff), 3)
  IN IF txPoolDiff > 80 THEN Chalk("red", poolInc)
     ELSE IF txPoolDiff > 30 THEN Chalk("yellow", poolInc)
     ELSE poolInc

NoFormat == [pc |-> "none", blockDetails |-> NoSnapshot,
             previous |-> [given |-> FALSE, snap |-> NoSnapshot],
             txPoolDiff |-> 0, poolText |-> EmptyStr]

\* The call: the pool segment of the rendered line (line 388).
GenerateBlockDetailsLog ==
  /\ fmt.pc = "input"
  /\ LET b == fmt.blockDetails
         p == fmt.previous
         both == b.hasPool /\ p.given /\ p.snap.hasPool
         txPoolDiff == IF both THEN TxPoolDiff(b.pendingTxs, p.snap.pendingTxs) ELSE 0
     IN fmt' = [fmt EXCEPT
                  !.pc = "rendered",
                  !.txPoolDiff = txPoolDiff,
                  !.poolText =
                    IF ~b.hasPool THEN EmptyStr
                    ELSE "[Pool:" \o TxPoolText(b.pendingTxs)
                         \o (IF both THEN "(+" \o PoolIncText(txPoolDiff) \o ")"
                             ELSE EmptyStr)
                         \o "]"]
  /\ UNCHANGED <<clock, caches, calls, drivers>>

InitProgram ==
  /\ now = StartTime
  /\ ticks = 0
  /\ authorMappingCache = [a \in AuthorKeys |-> NoEntry]
  /\ identityCache = [a \in AccountKeys |-> NoEntry]
  /\ mapStores = [a \in AuthorKeys |-> -1]
  /\ idStores = [a \in AccountKeys |-> -1]
  /\ calls = <<>>
  /\ tasks = <<>>
  /\ aggSnap = [amc |-> authorMappingCache, idc |-> identityCache]
  /\ walk = NoWalk
  /\ delivered = <<>>
  /\ listen = NoListen
  /\ handlers = <<>>
  /\ cbLog = <<>>

Init == InitProgram /\ fmt = NoFormat

\* The formatter called on any snapshot and any previous snapshot.
InitFormat ==
  /\ InitProgram
  /\ \E b \in Snapshots, p \in Previous :
       fmt = [NoFormat EXCEPT !.pc = "input", !.blockDetails = b, !.previous = p]

NextFormat == GenerateBlockDetailsLog

SpecFormat == InitFormat /\ [][NextFormat]_vars

NextIdentity ==
  \/ \E a \in AccountKeys \cup {EmptyStr} :
       Len(calls) < MaxCalls /\ CallGetAccountIdentity(a)
  \/ \E k \in AuthorKeys :
       Len(calls) < MaxCalls /\ CallGetAuthorIdentity(k)
  \/ \E c \in CallIds, ok \in BOOLEAN : MappingQueryDone(c, ok)
  \/ \E c \in CallIds, ok \in BOOLEAN : IdentityQueryDone(c, ok)
  \/ \E d \in TickSteps : Tick(d)

SpecIdentity == Init /\ [][NextIdentity]_vars

\* The caller resolves accounts one at a time and in batches.
NextBatch ==
  \/ \E a \in AccountKeys \cup {EmptyStr} :
       HasBudget(1) /\ CallGetAccountIdentity(a)
  \/ \E l \in AccountLists :
       HasBudget(IF Len(l) > 1 THEN Len(l) ELSE 1) /\ CallGetAccountIdentities(l)
  \/ \E c \in CallIds, ok \in BOOLEAN : IdentityQueryDone(c, ok)
  \/ \E c \in CallIds, ok \in BOOLEAN : BatchQueryDone(c, ok)
  \/ \E d \in TickSteps : Tick(d)

SpecBatch == Init /\ [][NextBatch]_vars

\* The steps of the getBlockDetails calls.
TaskNext ==
  \/ \E i \in TaskIds, ok \in BOOLEAN : BlockHashDone(i, ok)
  \/ \E i \in TaskIds, ok \in BOOLEAN : ApiAtDone(i, ok)
  \/ \E i \in TaskIds, ok \in BOOLEAN : FetchDone(i, ok)
  \/ \E i \in TaskIds, ok \in BOOLEAN : FeeDone(i, ok)
  \/ \E i \in TaskIds, ok \in BOOLEAN : TaskMappingDone(i, ok)
  \/ \E i \in TaskIds, ok \in BOOLEAN : TaskIdentityDone(i, ok)

\* The caller aggregates blocks one after the other.
NextAggregate ==
  \/ \E n \in 0..MaxBlock : CallGetBlockDetails(n)
  \/ \E d \in TickSteps : Tick(d)
  \/ \E i \in TaskIds, ok \in BOOLEAN : ApiAtDone(i, ok)
  \/ \E i \in TaskIds, ok \in BOOLEAN : FetchDone(i, ok)
  \/ \E i \in TaskIds, ok \in BOOLEAN : FeeDone(i, ok)
  \/ \E i \in TaskIds, ok \in BOOLEAN : TaskMappingDone(i, ok)
  \/ \E i \in TaskIds, ok \in BOOLEAN : TaskIdentityDone(i, ok)

SpecAggregate == Init /\ [][NextAggregate]_vars

\* The caller walks one range; the clock moves by more than the freshness
\* window, the one advance that changes what a lookup does.
NextWalk ==
  \/ \E from, to \in 1..MaxBlock, c \in 1..MaxConcurrency : ExploreBlockRange(from, to, c)
  \/ \E ok \in BOOLEAN : CallBackDone(ok)
  \/ TaskNext
  \/ Tick(FreshWindow + 1)

SpecWalk == Init /\ [][NextWalk]_vars

\* The walk when every chain query and every callback eventually completes;
\* the clock stands still, no cache entry going stale during the walk.
NextWalkLive ==
  \/ \E from, to \in 1..MaxBlock, c \in 1..MaxConcurrency : ExploreBlockRange(from, to, c)
  \/ \E ok \in BOOLEAN : CallBackDone(ok)
  \/ TaskNext

SpecWalkLive ==
  /\ Init /\ [][NextWalkLive]_vars
  /\ WF_vars(TaskNext)
  /\ WF_vars(\E ok \in BOOLEAN : CallBackDone(ok))

\* The caller follows the chain.
NextListen ==
  \/ \E e \in Entries, f \in BOOLEAN, h \in StartHeads : StartListen(e, f, h)
  \/ \E ok \in BOOLEAN : HeadBlockDone(ok)
  \/ \E ok \in BOOLEAN : ParentTimeDone(ok)
  \/ \E ok \in BOOLEAN : SubscribeDone(ok)
  \/ Notify
  \/ \E k \in 1..Len(handlers), ok \in BOOLEAN : PoolDone(k, ok)
  \/ \E k \in 1..Len(handlers), ok \in BOOLEAN : HeadCallBackDone(k, ok)
  \/ \E i \in TaskIds, ok \in BOOLEAN : ApiAtDone(i, ok)
  \/ \E i \in TaskIds, ok \in BOOLEAN : FetchDone(i, ok)
  \/ \E i \in TaskIds, ok \in BOOLEAN : FeeDone(i, ok)
  \/ \E i \in TaskIds, ok \in BOOLEAN : TaskMappingDone(i, ok)
  \/ \E i \in TaskIds, ok \in BOOLEAN : TaskIdentityDone(i, ok)

SpecListen == Init /\ [][NextListen]_vars

\* The caller follows the chain by listenBlocks itself, in either mode.
NextStartup ==
  \/ \E f \in BOOLEAN, h \in StartHeads : StartListen("listenBlocks", f, h)
  \/ \E ok \in BOOLEAN : HeadBlockDone(ok)
  \/ \E ok \in BOOLEAN : ParentTimeDone(ok)
  \/ \E ok \in BOOLEAN : SubscribeDone(ok)
  \/ Notify
  \/ \E k \in 1..Len(handlers), ok \in BOOLEAN : PoolDone(k, ok)
  \/ \E k \in 1..Len(handlers), ok \in BOOLEAN : HeadCallBackDone(k, ok)
  \/ \E i \in TaskIds, ok \in BOOLEAN : ApiAtDone(i, ok)
  \/ \E i \in TaskIds, ok \in BOOLEAN : FetchDone(i, ok)
  \/ \E i \in TaskIds, ok \in BOOLEAN : FeeDone(i, ok)
  \/ \E i \in TaskIds, ok \in BOOLEAN : TaskMappingDone(i, ok)
  \/ \E i \in TaskIds, ok \in BOOLEAN : TaskIdentityDone(i, ok)

SpecStartup == Init /\ [][NextStartup]_vars

(***************************************************************************)
(* C6.  Once a resolution has stored a key's entry at time t, a later      *)
(* lookup of that key started within one hour of t issues no storage       *)
(* query, and one started more than an hour after the latest store issues  *)
(* a query and reads its result from a refreshed entry.  This holds of the *)
(* identity cache (getAccountIdentity) and of the author-mapping cache     *)
(* (getAuthorIdentity).                                                    *)
(***************************************************************************)
C6_Freshness ==
  \A c \in CallIds :
    LET r == calls[c]
    IN /\ r.idSeen = "fresh" => ~r.idQueried
       /\ r.idSeen = "old" => r.idQueried
       /\ r.pc = "done" /\ Truthy(r.account) => r.usedFresh
       /\ r.mapSeen = "fresh" => ~r.mapQueried
       /\ r.mapSeen = "old" => r.mapQueried

\* An author is resolved again more than an hour after its entries were
\* stored: both lookups query again; and a lookup finds a fresh entry.
C6_Witness ==
  \E c, d \in CallIds :
    /\ calls[c].pc = "done" /\ calls[c].mapSeen = "none" /\ calls[c].idQueried
    /\ calls[d].pc = "done" /\ calls[d].mapSeen = "old" /\ calls[d].idSeen = "old"
    /\ calls[d].mapQueried /\ calls[d].idQueried /\ calls[d].usedFresh

(***************************************************************************)
(* C9 as stated: getAuthorIdentity of an author key with no mapping        *)
(* returns the display of the all-zero account identifier.                 *)
(***************************************************************************)
C9_ZeroAccountFallback ==
  \A c \in CallIds :
    (calls[c].kind = "author" /\ calls[c].pc = "done"
       /\ ChainMapping(calls[c].author) = Null)
    => calls[c].out = ZeroAccount

(***************************************************************************)
(* C9 amended: getAuthorIdentity of an author key with no mapping (on a    *)
(* fresh lookup or from a cached empty mapping) returns the empty string   *)
(* and issues no identity query.                                           *)
(***************************************************************************)
C9_EmptyFallback ==
  \A c \in CallIds :
    (calls[c].kind = "author" /\ ChainMapping(calls[c].author) = Null)
    => /\ ~calls[c].idQueried
       /\ calls[c].pc = "done" => calls[c].out = EmptyStr

\* An unmapped author resolved by a fresh lookup, then again from the cache.
C9_Witness ==
  \E c, d \in CallIds :
    /\ calls[c].kind = "author" /\ calls[c].pc = "done" /\ calls[c].mapQueried
    /\ calls[d].kind = "author" /\ calls[d].pc = "done" /\ ~calls[d].mapQueried
    /\ calls[c].author = "k3" /\ calls[d].author = "k3"

(***************************************************************************)
(* C10.  An account with no registered identity resolves to its own        *)
(* identifier, unchanged: getAccountIdentity returns it, and               *)
(* getAccountIdentities returns it at that account's position, on the      *)
(* first resolution and on those served from the cached entry.             *)
(***************************************************************************)
C10_NoIdentityIsAccount ==
  \A c \in CallIds :
    LET r == calls[c]
    IN /\ (r.kind = "account" /\ r.pc = "done" /\ ChainIdentityOf(r.account) = Null)
          => r.out = r.account
       /\ (r.kind = "accounts" /\ r.pc = "done")
          => /\ Len(r.outs) = Len(r.accounts)
             /\ \A i \in 1..Len(r.accounts) :
                  ChainIdentityOf(r.accounts[i]) = Null => r.outs[i] = r.accounts[i]

\* A batch stores the "no identity" entry of an account, and a later single
\* resolution of that account is served from it.
C10_Witness ==
  \E c, d \in CallIds :
    /\ calls[c].kind = "accounts" /\ calls[c].pc = "done"
    /\ \E i \in 1..Len(calls[c].accounts) : calls[c].accounts[i] = "0xBb"
    /\ calls[d].kind = "account" /\ calls[d].pc = "done" /\ calls[d].account = "0xBb"
    /\ ~calls[d].idQueried
    /\ identityCache["0xBb"].value = FalseV

(***************************************************************************)
(* C1.  For from <= to and concurrency >= 1, a walk that returns (every    *)
(* lookup, aggregation and callback succeeded) has invoked the callback    *)
(* exactly to - from + 1 times, once for each block of [from, to]; at      *)
(* every moment the blocks delivered so far are from, from + 1, ... in     *)
(* strictly increasing order.                                              *)
(***************************************************************************)
Range(from, n) == [i \in 1..n |-> from + i - 1]

C1_WalkDeliversRange ==
  (walk.pc # "idle" /\ walk.from <= walk.to)
  => /\ Len(delivered) <= walk.to - walk.from + 1
     /\ delivered = Range(walk.from, Len(delivered))
     /\ walk.pc = "returned" => Len(delivered) = walk.to - walk.from + 1

\* A walk of three blocks in batches of two (the last batch is clamped) returns.
C1_Witness ==
  /\ walk.pc = "returned" /\ walk.concurrency = 2
  /\ walk.to - walk.from + 1 = 3 /\ Len(delivered) = 3

(***************************************************************************)
(* C2.  Head notifications are processed one at a time: the aggregation    *)
(* for a head has not begun unless the callback invoked for the head       *)
(* before it has returned (or that head's handler failed before invoking   *)
(* it), so at most one aggregation-plus-callback is in flight.             *)
(***************************************************************************)
HandlerOver(h) == h.pc = "failed" \/ h.cb \in {"returned", "failed"}

C2_OneAtATime ==
  \A k \in 1..Len(handlers) : k < Len(handlers) => HandlerOver(handlers[k])

(***************************************************************************)
(* C3.  The follower's callback is invoked in notification arrival order:  *)
(* whatever the completion order of the aggregations and pool fetches, a   *)
(* later invocation carries a later notification's block.                  *)
(***************************************************************************)
C3_ArrivalOrder ==
  \A i, j \in 1..Len(cbLog) : i < j => cbLog[i].block < cbLog[j].block

(***************************************************************************)
(* C4.  The elapsedMilliSecs given to the callback for a head is the       *)
(* block's timestamp minus the timestamp of the previously notified block  *)
(* (the startup baseline for the first head).  Stated for runs in which    *)
(* no handler failed.                                                      *)
(***************************************************************************)
C4_ElapsedSincePrevious ==
  (\A k \in 1..Len(handlers) : handlers[k].pc # "failed")
  => \A i \in 1..Len(cbLog) :
       cbLog[i].elapsed =
         BlockTime(cbLog[i].block)
         - (IF cbLog[i].block = listen.head THEN listen.baseline
            ELSE BlockTime(cbLog[i].block - 1))

(***************************************************************************)
(* C5 as stated: if a fee-quote query of getBlockDetails fails, the call   *)
(* returns no snapshot and both caches are as they were before the call.   *)
(***************************************************************************)
LastTask == tasks[Len(tasks)]

C5_AtomicWithCaches ==
  (Len(tasks) > 0 /\ LastTask.feeFailed)
  => /\ LastTask.pc # "done"
     /\ authorMappingCache = aggSnap.amc
     /\ identityCache = aggSnap.idc

(***************************************************************************)
(* C5 amended: if a fee-quote query of getBlockDetails fails, the call     *)
(* fails and returns no snapshot; the caches are not rolled back: the      *)
(* author resolution running beside the fee queries still stores the       *)
(* author's mapping entry and the mapped account's identity entry, and no  *)
(* other entry changes.                                                    *)
(***************************************************************************)
C5_NoSnapshot ==
  (Len(tasks) > 0 /\ LastTask.feeFailed)
  => /\ LastTask.pc = "failed"
     /\ LastTask.result = NoResult
     /\ \A k \in AuthorKeys :
          authorMappingCache[k] # aggSnap.amc[k]
          => k = BlockAuthor(LastTask.num) /\ authorMappingCache[k].present
     /\ \A a \in AccountKeys :
          identityCache[a] # aggSnap.idc[a]
          => a = LastTask.res.account /\ identityCache[a].present

\* The fee query failed and the author resolution stored both entries.
C5_Witness ==
  /\ Len(tasks) > 0 /\ LastTask.feeFailed /\ LastTask.pc = "failed"
  /\ LastTask.res.pc = "done"
  /\ authorMappingCache # aggSnap.amc
  /\ identityCache # aggSnap.idc

(***************************************************************************)
(* C7.  When the aggregation of a block of a walk fails, the walk fails:   *)
(* the callbacks delivered are exactly those of the batches before the     *)
(* failing one, in increasing order, none is invoked for the failing batch *)
(* or a later one, and no block after the failing batch is fetched.        *)
(***************************************************************************)
C7_FailureAbortsWalk ==
  (walk.pc # "idle" /\ \E i \in TaskIds : tasks[i].pc = "failed")
  => /\ walk.pc = "failed"
     /\ delivered = Range(walk.from, tasks[1].num - walk.from)
     /\ \A i \in TaskIds : tasks[i].num = tasks[1].num + i - 1
     /\ walk.current = tasks[1].num + Len(tasks)

\* The second batch fails after one of its two aggregations succeeded.
C7_Witness ==
  /\ walk.pc = "failed" /\ Len(tasks) = 2 /\ Len(delivered) > 0
  /\ tasks[1].pc = "done" /\ tasks[2].pc = "failed"

(***************************************************************************)
(* C8.  In a walk at most `concurrency`, and at most to - from + 1, tasks  *)
(* are in flight, and batches are not pipelined: while a callback runs no  *)
(* task is in flight, and when a batch is in flight every block before it  *)
(* has been delivered and its callback has returned.                       *)
(***************************************************************************)
InFlight == {i \in TaskIds : ~Quiet(tasks[i])}

C8_BoundedNotPipelined ==
  (walk.pc # "idle" /\ walk.from <= walk.to)
  => /\ Cardinality(InFlight) <= walk.concurrency
     /\ Cardinality(InFlight) <= walk.to - walk.from + 1
     /\ walk.pc = "callback" => InFlight = {}
     /\ walk.pc = "await" => Len(delivered) = tasks[1].num - walk.from

\* The second batch of a walk, with `concurrency` tasks in flight.
C8_Witness ==
  /\ walk.pc = "await" /\ Len(delivered) > 0
  /\ walk.concurrency = 2 /\ Cardinality(InFlight) = 2

(***************************************************************************)
(* C11.  A getAccountIdentities call issues at most one batched storage    *)
(* query; the query covers exactly the input accounts whose entry was      *)
(* missing or stale when the call started (none: no query); the list it    *)
(* returns is as long as the input and its i-th entry is the display name  *)
(* of the i-th input account, repeated accounts included.                  *)
(***************************************************************************)
DisplayName(account) ==
  IF ChainIdentityOf(account) = Null THEN account ELSE ChainIdentityOf(account)

Elements(s) == {s[i] : i \in 1..Len(s)}

C11_OneBatchedQuery ==
  \A c \in CallIds :
    LET r == calls[c]
    IN r.kind = "accounts"
       => /\ r.queries <= 1
          /\ r.queries = 0 <=> r.due = {}
          /\ Elements(r.missing) = r.due
          /\ r.pc = "done"
             => /\ Len(r.outs) = Len(r.accounts)
                /\ \A i \in 1..Len(r.accounts) : r.outs[i] = DisplayName(r.accounts[i])

\* A batch naming one registered account twice beside an unregistered one
\* has queried and returned, and another batch was served without a query.
C11_Witness ==
  \E c, d \in CallIds :
    /\ calls[c].kind = "accounts" /\ calls[c].pc = "done" /\ calls[c].queries = 1
    /\ Len(calls[c].accounts) > Cardinality(Elements(calls[c].accounts))
    /\ calls[d].kind = "accounts" /\ calls[d].pc = "done" /\ calls[d].queries = 0
    /\ Len(calls[d].accounts) > 0 /\ calls[d].due = {}
    /\ Truthy(calls[d].accounts[1])

(***************************************************************************)
(* C12.  When the aggregation (or the pool fetch) for a head notification  *)
(* fails, the failure reaches the caller of the follower, the callback is  *)
(* not invoked for that head and the subscription stays active.  The       *)
(* caller's only channels are the promise the entry point returned and the *)
(* callback.                                                               *)
(***************************************************************************)
C12_FailureSurfaced ==
  \A k \in 1..Len(handlers) :
    handlers[k].pc = "failed"
    => /\ listen.callerGot = "rejected"
       /\ handlers[k].cb = "none"
       /\ listen.sub = "active"

C14_HandleAfterSubscription ==
  listen.pc # "idle"
  => /\ listen.callerGot \in {"pending", "unsubHeads", "rejected"}
     /\ listen.callerGot = "unsubHeads" <=> listen.sub = "active"

(***************************************************************************)
(* C15.  For a block with zero extrinsics getBlockDetails issues no        *)
(* fee-quote query and waits for nothing but its author resolution; it     *)
(* fails only if a fetch or the author resolution fails; the snapshot it   *)
(* returns has weightPercentage 0 and an empty per-extrinsic list.         *)
(***************************************************************************)
C15_EmptyBlock ==
  \A i \in TaskIds :
    LET t == tasks[i]
    IN BlockExtrinsics(t.num) = 0
       => /\ t.feeQueries = 0 /\ t.feesLeft = 0 /\ ~t.feeFailed
          /\ t.pc = "fanout" => t.res.pc \in {"mapQuery", "idQuery"}
          /\ t.pc = "failed" => t.res.pc \in {"none", "failed"}
          /\ t.pc = "done" => /\ t.result.weightPercentage = 0
                              /\ t.result.txWithEvents = <<>>
                              /\ t.result.block = t.num

\* The genesis block, without extrinsics, aggregated with its author looked up,
\* beside a block with extrinsics and a non-zero weight.
C15_Witness ==
  \E i, j \in TaskIds :
    /\ tasks[i].pc = "done" /\ BlockExtrinsics(tasks[i].num) = 0
    /\ tasks[i].res.mapQueried
    /\ tasks[j].pc = "done" /\ tasks[j].result.weightPercentage > 0

(***************************************************************************)
(* C16 as stated: with a pending pool in the snapshot and in the previous  *)
(* snapshot, the pool annotation is the current pool size minus the        *)
(* previous pool size, whatever the overlap of the two pools.              *)
(***************************************************************************)
BothPools ==
  /\ fmt.pc = "rendered" /\ fmt.blockDetails.hasPool
  /\ fmt.previous.given /\ fmt.previous.snap.hasPool

C16_SizeDelta ==
  BothPools
  => /\ fmt.txPoolDiff = Cardinality(fmt.blockDetails.pendingTxs)
                          - Cardinality(fmt.previous.snap.pendingTxs)
     /\ fmt.poolText = "[Pool:" \o PadStart(NumberToString(Cardinality(fmt.blockDetails.pendingTxs)), 4)
                                \o "(+" \o PadStart(NumberToString(fmt.txPoolDiff), 3) \o ")]"

(***************************************************************************)
(* C16 amended: the pool annotation is the number of transactions of the   *)
(* current pool that were not in the previous pool, padded to three        *)
(* characters after "(+"; it is never negative and equals the difference   *)
(* of the pool sizes exactly when every previous transaction is still      *)
(* pending.                                                                *)
(***************************************************************************)
C16_NewInPool ==
  BothPools
  => LET cur == fmt.blockDetails.pendingTxs
         prev == fmt.previous.snap.pendingTxs
     IN /\ fmt.txPoolDiff = Cardinality(cur \ prev)
        /\ fmt.txPoolDiff >= 0
        /\ (fmt.txPoolDiff = Cardinality(cur) - Cardinality(prev)) <=> (prev \subseteq cur)
        /\ fmt.poolText = "[Pool:" \o PadStart(NumberToString(Cardinality(cur)), 4)
                                   \o "(+" \o PadStart(NumberToString(Cardinality(cur \ prev)), 3)
                                   \o ")]"

\* Two pools of two transactions sharing one: one is new, the sizes are equal.
C16_Witness ==
  /\ BothPools
  /\ Cardinality(fmt.blockDetails.pendingTxs) = 2
  /\ Cardinality(fmt.previous.snap.pendingTxs) = 2
  /\ fmt.txPoolDiff = 1
  /\ fmt.poolText = "[Pool:   2(+  1)]"

(***************************************************************************)
(* C17 as stated: a fan-out waits for all its members, on success and on   *)
(* failure: the walk neither invokes a callback, nor returns, nor fails    *)
(* while an aggregation of its batch is in flight, and getBlockDetails     *)
(* neither returns nor fails while one of its queries is in flight.        *)
(***************************************************************************)
C17_WaitsForAll ==
  /\ walk.pc \in {"callback", "returned", "failed"} => InFlight = {}
  /\ \A i \in TaskIds : tasks[i].pc \in {"done", "failed"} => Quiet(tasks[i])

(***************************************************************************)
(* C17 amended: a fan-out waits for all its members on success and fails   *)
(* as soon as one member fails.  getBlockDetails returns only when its     *)
(* fetches, fee queries and author resolution have all answered; the walk  *)
(* invokes a callback, starts the next batch or returns only when every    *)
(* aggregation of the batch has returned; a rejected member fails the      *)
(* aggregation or the walk at once, the other members still in flight.     *)
(***************************************************************************)
C17_WaitsOnSuccessFailsFast ==
  /\ \A i \in TaskIds :
       LET t == tasks[i]
       IN /\ t.pc = "done" => Quiet(t) /\ t.res.pc = "done"
          /\ t.pc = "fanout" => ~t.feeFailed /\ t.res.pc # "failed"
  /\ walk.pc \in {"callback", "returned"}
     => \A i \in TaskIds : tasks[i].pc = "done" /\ Quiet(tasks[i])
  /\ walk.pc = "await" => \A i \in TaskIds : tasks[i].pc # "failed"

\* The walk has failed on a fee query of one aggregation while that
\* aggregation's author resolution and the batch's other aggregation are
\* still in flight.
C17_Witness ==
  /\ walk.pc = "failed"
  /\ \E i, j \in TaskIds :
       /\ tasks[i].pc = "failed" /\ tasks[i].feeFailed
       /\ tasks[i].res.pc \in {"mapQuery", "idQuery"}
       /\ tasks[j].pc \notin {"done", "failed"}

(***************************************************************************)
(* C18.  Overlapping resolutions of one key never have two storage queries *)
(* for it in flight: of the aggregations running together, no two wait for *)
(* the mapping of the same author or for the identity of the same account. *)
(***************************************************************************)
C18_NoDuplicateQueries ==
  \A i, j \in TaskIds :
    i # j
    => /\ ~(/\ tasks[i].res.pc = "mapQuery" /\ tasks[j].res.pc = "mapQuery"
            /\ tasks[i].res.author = tasks[j].res.author)
       /\ ~(/\ tasks[i].res.pc = "idQuery" /\ tasks[j].res.pc = "idQuery"
            /\ tasks[i].res.account = tasks[j].res.account)

(***************************************************************************)
(* C19.  A walk has at most one callback invocation in flight: every       *)
(* block delivered but the last has had its callback return, the last      *)
(* one's is running exactly while the walk awaits it, and once a callback  *)
(* has failed the walk has failed with no further callback invoked and no  *)
(* further batch started.                                                  *)
(***************************************************************************)
C19_OneCallbackAtATime ==
  walk.pc # "idle"
  => LET running == Len(delivered) - walk.cbReturned - (IF walk.cbFailed THEN 1 ELSE 0)
     IN /\ running \in {0, 1}
        /\ running = 1 <=> walk.pc = "callback"
        /\ walk.cbFailed => /\ walk.pc = "failed"
                            /\ Len(delivered) = walk.cbReturned + 1
                            /\ InFlight = {}
                            /\ walk.current = tasks[1].num + Len(tasks)

\* The second callback of a batch of two fails after the first returned.
C19_Witness ==
  /\ walk.pc = "failed" /\ walk.cbFailed /\ walk.cbReturned = 1
  /\ Len(tasks) = 2 /\ walk.cbIdx = 2 /\ walk.current <= walk.to

(***************************************************************************)
(* C20.  For from <= to and concurrency >= 1, when every chain query and   *)
(* every callback eventually completes, a walk eventually returns or       *)
(* fails; every batch moves the current block number forward by at least   *)
(* one and never past to + 1; a walk with from > to returns at once with   *)
(* no query and no callback.                                               *)
(***************************************************************************)
C20_WalkTerminates ==
  /\ (walk.pc # "idle") ~> (walk.pc \in {"returned", "failed"})
  /\ [][walk'.pc = "await" /\ walk' # walk
          => /\ walk'.current > (IF walk.pc = "idle" THEN walk'.from ELSE walk.current)
             /\ walk'.current <= walk'.to + 1]_vars
  /\ [](walk.pc # "idle" /\ walk.from > walk.to
          => walk.pc = "returned" /\ tasks = <<>> /\ delivered = <<>>)

\* A walk of two blocks with concurrency 1 has returned after two batches;
C20_Witness ==
  /\ walk.pc = "returned" /\ walk.concurrency = 1
  /\ walk.to = walk.from + 1 /\ Len(delivered) = 2 /\ walk.cbReturned = 2

====
